---------------------------- MODULE Spec2Model ----------------------------
(***************************************************************************)
(* State-machine model of src/src/algorithms/balancing_algorithm.hpp:      *)
(* IDICalculator, PIDController, HardwareSoftwareBalancer, IDIBrake,       *)
(* NeuralPruning and CombinedThrottleCalculator.                           *)
(*                                                                         *)
(* Numbers.  The code computes in double.  The model computes the same     *)
(* expressions exactly, in fixed point: every quantity is an integer       *)
(* count of a unit chosen so that each division the code performs is       *)
(* exact on the inputs enumerated here.                                    *)
(*   throttle levels and imbalances : units of 1/One                      *)
(*   capacity and demand scores     : units of 1/PctScale percent         *)
(*   debt (IDI)                     : units of 1/DebtScale                *)
(*   error rates                    : units of 1/ErrScale                 *)
(*   PID adjustment                 : units of 1/AdjScale                 *)
(*   time                           : minutes                             *)
(***************************************************************************)
EXTENDS Integers, Sequences, FiniteSets

One       == 3 * 1000 * 1000
PctScale  == 10 * 100
DebtScale == 10 * 10
ErrScale  == 100 * 100
AdjScale  == 100 * 100

Min(a, b) == IF a < b THEN a ELSE b
Max(a, b) == IF a > b THEN a ELSE b
Abs(a)    == IF a < 0 THEN 0 - a ELSE a
\* std::clamp(v, lo, hi)
Clamp(v, lo, hi) == IF v < lo THEN lo ELSE IF hi < v THEN hi ELSE v

VARIABLES
    \* PIDController
    target_, integral_, previous_error_, adjustment, streak,
    \* HardwareSoftwareBalancer
    history_, mutex_, pc, frame, clock, calls,
    \* IDIBrake and CombinedThrottleCalculator
    idi, brake, below1, below2, balance_throttle, is_quarantined, final_throttle,
    \* NeuralPruning
    component, quarantined_at, now, telemetry, dwell

pidVars   == <<target_, integral_, previous_error_, adjustment, streak>>
balVars   == <<history_, mutex_, pc, frame, clock, calls>>
brakeVars == <<idi, brake, below1, below2, balance_throttle, is_quarantined,
               final_throttle>>
gateVars  == <<component, quarantined_at, now, telemetry, dwell>>
vars      == <<pidVars, balVars, brakeVars, gateVars>>

(***************************************************************************)
(* Thresholds                                                              *)
(***************************************************************************)
IDI_HEALTHY    == 3 * DebtScale
IDI_WARNING    == 5 * DebtScale
IDI_CRITICAL   == 7 * DebtScale
IDI_QUARANTINE == 10 * DebtScale
TEMPERATURE_WARNING  == 70
TEMPERATURE_CRITICAL == 85
TEMPERATURE_SHUTDOWN == 95
HW_SW_IMBALANCE_THRESHOLD == (3 * One) \div 10
LATENCY_WARNING_MS  == 100
LATENCY_CRITICAL_MS == 500

(***************************************************************************)
(* PIDController                                                           *)
(***************************************************************************)
INTEGRAL_MIN == -50
INTEGRAL_MAX == 50
\* The default gains kp = 0.5, ki = 0.1, kd = 0.05, in hundredths.
kp_ == 50
ki_ == 10
kd_ == 5
\* The set-points and the measured values the callers pass.
Targets == {0, 70}
Values  == {-1000, 0, 45, 69, 70, 71, 100, 1000}
\* The longest run of equal errors the model counts.
MaxStreak == 4

\* integral_ = std::clamp(integral_ + error, INTEGRAL_MIN, INTEGRAL_MAX)
AccumulateNoClamp(acc, error) == acc + error
Accumulate(acc, error) == Clamp(acc + error, INTEGRAL_MIN, INTEGRAL_MAX)

\* std::clamp((p_term + i_term + d_term) / 100.0, -0.3, 0.3)
PidOutput(error, acc, prev) ==
    Clamp(kp_ * error + ki_ * acc + kd_ * (error - prev),
          0 - (3 * AdjScale) \div 10, (3 * AdjScale) \div 10)

PidInit ==
    /\ target_ = 70
    /\ integral_ = 0
    /\ previous_error_ = 0
    /\ adjustment = 0
    /\ streak = 0

setTarget(target) ==
    /\ target_' = target
    /\ UNCHANGED <<integral_, previous_error_, adjustment, streak>>
    /\ UNCHANGED <<balVars, brakeVars, gateVars>>

reset ==
    /\ integral_' = 0
    /\ previous_error_' = 0
    /\ streak' = 0
    /\ UNCHANGED <<target_, adjustment>>
    /\ UNCHANGED <<balVars, brakeVars, gateVars>>

\* PIDController::calculate.  streak counts the consecutive calls that saw
\* the error now held in previous_error_.
calculate(current_value) ==
    LET error == target_ - current_value
    IN  /\ integral_' = Accumulate(integral_, error)
        /\ adjustment' = PidOutput(error, integral_', previous_error_)
        /\ previous_error_' = error
        /\ streak' = IF streak > 0 /\ error = previous_error_
                     THEN Min(streak + 1, MaxStreak) ELSE 1
        /\ UNCHANGED target_
        /\ UNCHANGED <<balVars, brakeVars, gateVars>>

PidNext ==
    \/ \E target \in Targets : setTarget(target)
    \/ reset
    \/ \E current_value \in Values : calculate(current_value)

(***************************************************************************)
(* HardwareSoftwareBalancer                                                *)
(***************************************************************************)
moving_avg_window_ == 10
target_throughput_ == 1000

\* std::optional<double>: <<>> is std::nullopt, <<v>> holds v.
nullopt      == <<>>
has_value(o) == Len(o) = 1
value(o)     == o[1]

\* Telemetry snapshots the callers pass (cpu and memory in percent, latency
\* in ms, error_rate in 1/ErrScale, throughput in requests/sec, temperature
\* in Celsius).
Overloaded ==
    [cpu_usage |-> 100, memory_usage |-> 100, io_latency_ms |-> 150,
     error_rate |-> 200, throughput |-> 900, temperature |-> nullopt]
Underused ==
    [cpu_usage |-> 25, memory_usage |-> 25, io_latency_ms |-> 40,
     error_rate |-> 0, throughput |-> 360, temperature |-> <<75>>]
\* The current_throttle values the callers pass, all within [0, 1].
Throttles == {One \div 10, One \div 2, One}

\* calculateHardwareCapacity, in 1/PctScale percent.
calculateHardwareCapacity(t) ==
    LET cpu_capacity == 100 - t.cpu_usage
        memory_capacity == 100 - t.memory_usage
        \* temp_factor in tenths
        temp_factor ==
            IF has_value(t.temperature)
            THEN IF value(t.temperature) > TEMPERATURE_CRITICAL THEN 3
                 ELSE IF value(t.temperature) > TEMPERATURE_WARNING THEN 7
                 ELSE 10
            ELSE 10
    IN  (cpu_capacity * 4 * PctScale) \div 10
        + (memory_capacity * 4 * PctScale) \div 10
        + (100 * temp_factor * 2 * PctScale) \div 100

\* calculateSoftwareDemand, in 1/PctScale percent.
calculateSoftwareDemand(t) ==
    LET throughput_demand ==
            Min((t.throughput * 100 * PctScale) \div target_throughput_,
                100 * PctScale)
        latency_urgency ==
            IF t.io_latency_ms > LATENCY_CRITICAL_MS THEN 100 * PctScale
            ELSE IF t.io_latency_ms > LATENCY_WARNING_MS THEN 70 * PctScale
            ELSE (t.io_latency_ms * 50 * PctScale) \div LATENCY_WARNING_MS
        error_stress ==
            Min((t.error_rate * 1000 * PctScale) \div ErrScale, 100 * PctScale)
    IN  (throughput_demand * 5 + latency_urgency * 3 + error_stress * 2) \div 10

\* calculateImbalance, in 1/One: (hw_capacity - sw_demand) / 100.0.
calculateImbalance(hw_capacity, sw_demand) ==
    IF hw_capacity + sw_demand = 0 THEN 0
    ELSE (hw_capacity - sw_demand) * (One \div (100 * PctScale))

\* getBalancingAction: the verdict's action, throttle_level and imbalance.
getBalancingAction(imbalance, current_throttle) ==
    LET threshold == HW_SW_IMBALANCE_THRESHOLD
    IN  IF Abs(imbalance) < threshold
        THEN [action |-> "NONE", throttle_level |-> current_throttle,
              imbalance |-> imbalance]
        ELSE IF imbalance < 0 - threshold
        THEN LET throttle_amount == Min(Abs(imbalance), One \div 2)
                 new_throttle == Max(current_throttle - throttle_amount,
                                     (2 * One) \div 10)
             IN  [action |-> "THROTTLE", throttle_level |-> new_throttle,
                  imbalance |-> imbalance]
        ELSE LET boost_potential == Min(imbalance, (3 * One) \div 10)
             IN  [action |-> "ALERT",
                  throttle_level |-> Min(current_throttle + boost_potential, One),
                  imbalance |-> imbalance]

\* history_.pop_front()
PopBack(h)  == SubSeq(h, 1, Len(h) - 1)
PopFront(h) == Tail(h)

\* The samples the averaging loop of balance() visits: from
\* history_.end() - moving_avg_window_ to history_.end().
WholeHistory(h) == h
AveragedSamples(h) == SubSeq(h, Len(h) - moving_avg_window_ + 1, Len(h))

RECURSIVE SumImbalance(_)
SumImbalance(s) ==
    IF s = <<>> THEN 0 ELSE s[1].imbalance + SumImbalance(Tail(s))

\* The second critical section of balance(): avg_imbalance.
SmoothedImbalance(h, imbalance) ==
    IF Len(h) >= moving_avg_window_
    THEN SumImbalance(AveragedSamples(h)) \div moving_avg_window_
    ELSE imbalance

\* The locals of one call in progress; NoFrame when the thread is in none.
NoResult == [action |-> "NONE", throttle_level |-> 0, imbalance |-> 0]
NoFrame ==
    [current_throttle |-> 0, hw_capacity |-> 0, sw_demand |-> 0,
     imbalance |-> 0, timestamp |-> 0,
     avg_imbalance |-> 0, averaged |-> <<>>, result |-> NoResult,
     metrics |-> <<>>]

Free == "free"

\* The sample balance() pushes for a snapshot at clock reading ts.
Sample(telemetry_, ts) ==
    LET hw_capacity == calculateHardwareCapacity(telemetry_)
        sw_demand == calculateSoftwareDemand(telemetry_)
    IN  [hw_capacity |-> hw_capacity, sw_demand |-> sw_demand,
         imbalance |-> calculateImbalance(hw_capacity, sw_demand),
         timestamp |-> ts]

\* A balancer on which n calls with the Overloaded snapshot have returned
\* (n = 0: a freshly constructed one), used by the given threads.
BalInit(threads, n) ==
    /\ history_ = [i \in 1..n |-> Sample(Overloaded, i)]
    /\ mutex_ = Free
    /\ pc = [t \in threads |-> "idle"]
    /\ frame = [t \in threads |-> NoFrame]
    /\ clock = n
    /\ calls = 0

\* balance(), up to the first lock_guard: the three scores are computed
\* from the snapshot before the lock is taken.
BalanceEnter(t, telemetry_, current_throttle, max_calls) ==
    /\ pc[t] \in {"idle", "done", "mdone"}
    /\ calls < max_calls
    /\ calls' = calls + 1
    /\ LET hw_capacity == calculateHardwareCapacity(telemetry_)
           sw_demand == calculateSoftwareDemand(telemetry_)
       IN  frame' = [frame EXCEPT ![t] =
                [NoFrame EXCEPT
                    !.current_throttle = current_throttle,
                    !.hw_capacity = hw_capacity,
                    !.sw_demand = sw_demand,
                    !.imbalance = calculateImbalance(hw_capacity, sw_demand)]]
    /\ pc' = [pc EXCEPT ![t] = "lock1"]
    /\ UNCHANGED <<history_, mutex_, clock>>
    /\ UNCHANGED <<pidVars, brakeVars, gateVars>>

\* The first critical section: lock, history_.push_back(...).  The sample's
\* timestamp is the clock read under the lock.
BalancePush(t) ==
    /\ pc[t] = "lock1"
    /\ mutex_ = Free
    /\ mutex_' = t
    /\ clock' = clock + 1
    /\ history_' = Append(history_,
            [hw_capacity |-> frame[t].hw_capacity,
             sw_demand |-> frame[t].sw_demand,
             imbalance |-> frame[t].imbalance,
             timestamp |-> clock'])
    /\ frame' = [frame EXCEPT ![t].timestamp = clock']
    /\ pc' = [pc EXCEPT ![t] = "evict"]
    /\ UNCHANGED calls
    /\ UNCHANGED <<pidVars, brakeVars, gateVars>>

\* while (history_.size() > moving_avg_window_ * 2) history_.pop_front();
BalanceEvict(t) ==
    /\ pc[t] = "evict"
    /\ Len(history_) > moving_avg_window_ * 2
    /\ history_' = PopFront(history_)
    /\ UNCHANGED <<mutex_, pc, frame, clock, calls>>
    /\ UNCHANGED <<pidVars, brakeVars, gateVars>>

\* The end of the first block: the lock_guard releases the mutex.
BalanceUnlock(t) ==
    /\ pc[t] = "evict"
    /\ ~(Len(history_) > moving_avg_window_ * 2)
    /\ mutex_' = Free
    /\ pc' = [pc EXCEPT ![t] = "lock2"]
    /\ UNCHANGED <<history_, frame, clock, calls>>
    /\ UNCHANGED <<pidVars, brakeVars, gateVars>>

\* The second critical section: lock, average the last window.  averaged
\* records the timestamps of the samples the loop visited.
BalanceAverage(t) ==
    /\ pc[t] = "lock2"
    /\ mutex_ = Free
    /\ mutex_' = t
    /\ frame' = [frame EXCEPT
            ![t].avg_imbalance = SmoothedImbalance(history_, frame[t].imbalance),
            ![t].averaged =
                IF Len(history_) >= moving_avg_window_
                THEN [i \in 1..moving_avg_window_ |->
                        AveragedSamples(history_)[i].timestamp]
                ELSE <<>>]
    /\ pc' = [pc EXCEPT ![t] = "avg"]
    /\ UNCHANGED <<history_, clock, calls>>
    /\ UNCHANGED <<pidVars, brakeVars, gateVars>>

\* The lock_guard releases; return getBalancingAction(avg_imbalance, ...).
BalanceReturn(t) ==
    /\ pc[t] = "avg"
    /\ mutex_' = Free
    /\ frame' = [frame EXCEPT ![t].result =
            getBalancingAction(frame[t].avg_imbalance, frame[t].current_throttle)]
    /\ pc' = [pc EXCEPT ![t] = "done"]
    /\ UNCHANGED <<history_, clock, calls>>
    /\ UNCHANGED <<pidVars, brakeVars, gateVars>>

\* getRecentMetrics(count): lock, copy the last count samples.
RecentMetrics(h, count) ==
    IF Len(h) > count THEN SubSeq(h, Len(h) - count + 1, Len(h)) ELSE h

MetricsCopy(t, count) ==
    /\ pc[t] \in {"idle", "done", "mdone"}
    /\ mutex_ = Free
    /\ mutex_' = t
    /\ frame' = [frame EXCEPT ![t] =
            [NoFrame EXCEPT !.metrics = RecentMetrics(history_, count)]]
    /\ pc' = [pc EXCEPT ![t] = "metrics"]
    /\ UNCHANGED <<history_, clock, calls>>
    /\ UNCHANGED <<pidVars, brakeVars, gateVars>>

MetricsReturn(t) ==
    /\ pc[t] = "metrics"
    /\ mutex_' = Free
    /\ pc' = [pc EXCEPT ![t] = "mdone"]
    /\ UNCHANGED <<history_, frame, clock, calls>>
    /\ UNCHANGED <<pidVars, brakeVars, gateVars>>

(***************************************************************************)
(* IDICalculator::getSeverity, IDIBrake, CombinedThrottleCalculator        *)
(***************************************************************************)
getSeverity(d) ==
    IF d < IDI_HEALTHY THEN "HEALTHY"
    ELSE IF d < IDI_WARNING THEN "WARNING"
    ELSE IF d < IDI_QUARANTINE THEN "CRITICAL"
    ELSE "QUARANTINE"

\* IDIBrake::calculateThrottleLevel with the third segment ending at
\* IDI_QUARANTINE and no fourth one.
calculateThrottleLevelOneCriticalBand(d) ==
    IF d < IDI_HEALTHY THEN One
    ELSE IF d < IDI_WARNING
    THEN One - ((d - IDI_HEALTHY) * ((3 * One) \div 10))
                   \div (IDI_WARNING - IDI_HEALTHY)
    ELSE IF d < IDI_QUARANTINE
    THEN (7 * One) \div 10
         - ((d - IDI_WARNING) * ((4 * One) \div 10))
               \div (IDI_QUARANTINE - IDI_WARNING)
    ELSE 0

\* IDIBrake::calculateThrottleLevel with the third segment falling to 0.4.
calculateThrottleLevelShortFall(d) ==
    IF d < IDI_HEALTHY THEN One
    ELSE IF d < IDI_WARNING
    THEN One - ((d - IDI_HEALTHY) * ((3 * One) \div 10))
                   \div (IDI_WARNING - IDI_HEALTHY)
    ELSE IF d < IDI_CRITICAL
    THEN (7 * One) \div 10
         - ((d - IDI_WARNING) * ((3 * One) \div 10))
               \div (IDI_CRITICAL - IDI_WARNING)
    ELSE IF d < IDI_QUARANTINE
    THEN (3 * One) \div 10
         - ((d - IDI_CRITICAL) * ((2 * One) \div 10))
               \div (IDI_QUARANTINE - IDI_CRITICAL)
    ELSE 0

\* IDIBrake::calculateThrottleLevel: ratio = (idi - lower) / (upper - lower),
\* return start - ratio * drop.
calculateThrottleLevel(d) ==
    IF d < IDI_HEALTHY THEN One
    ELSE IF d < IDI_WARNING
    THEN One - ((d - IDI_HEALTHY) * ((3 * One) \div 10))
                   \div (IDI_WARNING - IDI_HEALTHY)
    ELSE IF d < IDI_CRITICAL
    THEN (7 * One) \div 10
         - ((d - IDI_WARNING) * ((4 * One) \div 10))
               \div (IDI_CRITICAL - IDI_WARNING)
    ELSE IF d < IDI_QUARANTINE
    THEN (3 * One) \div 10
         - ((d - IDI_CRITICAL) * ((2 * One) \div 10))
               \div (IDI_QUARANTINE - IDI_CRITICAL)
    ELSE 0

\* IDIBrake::applyBrake: the verdict's action, throttle_level and idi_score.
applyBrake(d) ==
    LET severity == getSeverity(d)
    IN  [action |-> CASE severity = "QUARANTINE" -> "QUARANTINE"
                      [] severity = "CRITICAL" -> "BRAKE"
                      [] severity = "WARNING" -> "THROTTLE"
                      [] OTHER -> "NONE",
         throttle_level |-> calculateThrottleLevel(d),
         idi_score |-> d]

\* CombinedThrottleCalculator::calculate returning the laxer throttle.
CombinedLaxer(idi_throttle, balance_throttle_, is_quarantined_) ==
    IF is_quarantined_ THEN 0
    ELSE Max(idi_throttle, balance_throttle_)

\* CombinedThrottleCalculator::calculate
CombinedThrottle(idi_throttle, balance_throttle_, is_quarantined_) ==
    IF is_quarantined_ THEN 0
    ELSE Min(idi_throttle, balance_throttle_)

\* The debts the brake is applied to run from 0 to MaxDebt, in steps of
\* 1/DebtScale.
MaxDebt == 12
\* The throttle recommendations of the balancer the combiner is given.
BalanceThrottles == {0, (2 * One) \div 10, (65 * One) \div 100, One}

\* brake, final_throttle, below1 and below2 are <<>> until they are computed.
BrakeInit ==
    /\ idi \in 0..(MaxDebt * DebtScale)
    /\ brake = <<>>
    /\ below1 = <<>>
    /\ below2 = <<>>
    /\ balance_throttle = One
    /\ is_quarantined = FALSE
    /\ final_throttle = <<>>

\* A first call of applyBrake, for the debt idi.
ApplyBrake ==
    /\ brake = <<>>
    /\ brake' = <<applyBrake(idi)>>
    /\ UNCHANGED <<idi, below1, below2, balance_throttle, is_quarantined,
                   final_throttle>>
    /\ UNCHANGED <<pidVars, balVars, gateVars>>

\* The debt has grown by one step and applyBrake is called again; below1
\* and below2 keep the throttle levels returned one and two steps below.
DebtRises ==
    /\ brake # <<>>
    /\ idi < MaxDebt * DebtScale
    /\ idi' = idi + 1
    /\ brake' = <<applyBrake(idi')>>
    /\ below1' = <<brake[1].throttle_level>>
    /\ below2' = below1
    /\ final_throttle' = <<>>
    /\ UNCHANGED <<balance_throttle, is_quarantined>>
    /\ UNCHANGED <<pidVars, balVars, gateVars>>

\* CombinedThrottleCalculator::calculate on the brake's throttle level.
Combine(balance_throttle_, is_quarantined_) ==
    /\ brake # <<>>
    /\ balance_throttle' = balance_throttle_
    /\ is_quarantined' = is_quarantined_
    /\ final_throttle' = <<CombinedThrottle(brake[1].throttle_level,
                                            balance_throttle_, is_quarantined_)>>
    /\ UNCHANGED <<idi, brake, below1, below2>>
    /\ UNCHANGED <<pidVars, balVars, gateVars>>

BrakeNext ==
    \/ ApplyBrake
    \/ DebtRises
    \/ \E b \in BalanceThrottles, q \in BOOLEAN : Combine(b, q)

(***************************************************************************)
(* NeuralPruning                                                           *)
(***************************************************************************)
MinutesPerHour == 60

\* std::chrono::duration_cast<std::chrono::hours>: towards zero.
Hours(minutes) ==
    IF minutes >= 0 THEN minutes \div MinutesPerHour
    ELSE 0 - ((0 - minutes) \div MinutesPerHour)

\* NeuralPruning::shouldPrune
shouldPrune(d, error_rate, health_score, temperature) ==
    IF d >= IDI_QUARANTINE THEN TRUE
    ELSE IF error_rate >= (5 * ErrScale) \div 100 THEN TRUE
    ELSE IF has_value(temperature) /\ value(temperature) >= TEMPERATURE_SHUTDOWN
    THEN TRUE
    ELSE IF health_score < 20 THEN TRUE
    ELSE FALSE

\* NeuralPruning::canRestore with the duration rounded to the nearest hour.
canRestoreRounded(d, health_score, quarantined_at_, now_) ==
    IF d >= IDI_WARNING THEN FALSE
    ELSE IF health_score < 70 THEN FALSE
    ELSE IF Hours(now_ - quarantined_at_ + MinutesPerHour \div 2) < 1 THEN FALSE
    ELSE TRUE

\* NeuralPruning::canRestore; now_ is the system_clock::now() it reads.
canRestore(d, health_score, quarantined_at_, now_) ==
    IF d >= IDI_WARNING THEN FALSE
    ELSE IF health_score < 70 THEN FALSE
    ELSE IF Hours(now_ - quarantined_at_) < 1 THEN FALSE
    ELSE TRUE

\* The per-component cycle around the gate: the collector delivers the
\* cycle's values, the clock advances, an ACTIVE component is quarantined
\* when shouldPrune holds and a QUARANTINED one restored when canRestore
\* holds.  dwell is <<>> until a restore, then the minutes the component
\* had spent in quarantine.
MaxMinutes == 61
Debts       == {0, 490, 500, 1000}
ErrorRates  == {0, 500}
Healths     == {19, 69, 70, 100}
Temperatures == {nullopt, <<95>>}

GateInit ==
    /\ component = "ACTIVE"
    /\ quarantined_at = <<>>
    /\ now = 0
    /\ telemetry = [idi |-> 0, error_rate |-> 0, health_score |-> 100,
                    temperature |-> nullopt]
    /\ dwell = <<>>

Observe(d, e, h, temp) ==
    /\ telemetry' = [idi |-> d, error_rate |-> e, health_score |-> h,
                     temperature |-> temp]
    /\ UNCHANGED <<component, quarantined_at, now, dwell>>
    /\ UNCHANGED <<pidVars, balVars, brakeVars>>

Tick ==
    /\ now < MaxMinutes
    /\ now' = now + 1
    /\ UNCHANGED <<component, quarantined_at, telemetry, dwell>>
    /\ UNCHANGED <<pidVars, balVars, brakeVars>>

Quarantine ==
    /\ component = "ACTIVE"
    /\ shouldPrune(telemetry.idi, telemetry.error_rate, telemetry.health_score,
                   telemetry.temperature)
    /\ component' = "QUARANTINED"
    /\ quarantined_at' = <<now>>
    /\ dwell' = <<>>
    /\ UNCHANGED <<now, telemetry>>
    /\ UNCHANGED <<pidVars, balVars, brakeVars>>

Restore ==
    /\ component = "QUARANTINED"
    /\ canRestore(telemetry.idi, telemetry.health_score, quarantined_at[1], now)
    /\ component' = "ACTIVE"
    /\ quarantined_at' = <<>>
    /\ dwell' = <<now - quarantined_at[1]>>
    /\ UNCHANGED <<now, telemetry>>
    /\ UNCHANGED <<pidVars, balVars, brakeVars>>

GateNext ==
    \/ \E d \in Debts, e \in ErrorRates, h \in Healths, temp \in Temperatures :
            Observe(d, e, h, temp)
    \/ Tick
    \/ Quarantine
    \/ Restore

(***************************************************************************)
(* The components a specification leaves alone stay in these states.       *)
(***************************************************************************)
BalRest == BalInit({}, 0)

BrakeRest ==
    /\ idi = 0
    /\ brake = <<>>
    /\ below1 = <<>>
    /\ below2 = <<>>
    /\ balance_throttle = One
    /\ is_quarantined = FALSE
    /\ final_throttle = <<>>

GateRest == GateInit

PidSpecInit == PidInit /\ BalRest /\ BrakeRest /\ GateRest

SpecPID == PidSpecInit /\ [][PidNext]_vars

BrakeSpecInit == BrakeInit /\ PidInit /\ BalRest /\ GateRest

SpecBrake == BrakeSpecInit /\ [][BrakeNext]_vars

GateSpecInit == GateInit /\ PidInit /\ BalRest /\ BrakeRest

SpecGate == GateSpecInit /\ [][GateNext]_vars

(***************************************************************************)
(* One caller of balance()                                                 *)
(***************************************************************************)
\* The calls of balance() a run makes.
MaxCalls == 12
\* The calls already made on the balancer a run may start from.
Prefilled == 15

BalanceInit ==
    /\ \E n \in {0, Prefilled} : BalInit({"t1"}, n)
    /\ PidInit /\ BrakeRest /\ GateRest

BalanceNext ==
    \/ \E tel \in {Overloaded, Underused}, ct \in Throttles :
            BalanceEnter("t1", tel, ct, MaxCalls)
    \/ BalancePush("t1")
    \/ BalanceEvict("t1")
    \/ BalanceUnlock("t1")
    \/ BalanceAverage("t1")
    \/ BalanceReturn("t1")

SpecBalance == BalanceInit /\ [][BalanceNext]_vars

(***************************************************************************)
(* One caller of balance() that feeds each verdict's throttle back         *)
(***************************************************************************)
\* balance() called with the throttle_level of the verdict the caller's
\* previous call returned as current_throttle.
BalanceEnterFedBack(t, telemetry_, max_calls) ==
    /\ pc[t] = "done"
    /\ BalanceEnter(t, telemetry_, frame[t].result.throttle_level, max_calls)

\* The first call passes one of Throttles, every later call the previous
\* verdict's throttle_level.
FeedbackNext ==
    \/ \E tel \in {Overloaded, Underused}, ct \in Throttles :
            pc["t1"] = "idle" /\ BalanceEnter("t1", tel, ct, MaxCalls)
    \/ \E tel \in {Overloaded, Underused} :
            BalanceEnterFedBack("t1", tel, MaxCalls)
    \/ BalancePush("t1")
    \/ BalanceEvict("t1")
    \/ BalanceUnlock("t1")
    \/ BalanceAverage("t1")
    \/ BalanceReturn("t1")

SpecFeedback == BalanceInit /\ [][FeedbackNext]_vars

(***************************************************************************)
(* Several threads on one HardwareSoftwareBalancer                         *)
(***************************************************************************)
Threads == {"t1", "t2"}
\* The calls of balance() a run makes, over all threads.
MaxConcCalls == 22
\* The count arguments of getRecentMetrics (10 is the default).
Counts == {3, 10}

ConcInit ==
    /\ BalInit(Threads, 0)
    /\ PidInit /\ BrakeRest /\ GateRest

ConcNext ==
    \/ \E t \in Threads : BalanceEnter(t, Overloaded, One, MaxConcCalls)
    \/ \E t \in Threads : BalancePush(t)
    \/ \E t \in Threads : BalanceEvict(t)
    \/ \E t \in Threads : BalanceUnlock(t)
    \/ \E t \in Threads : BalanceAverage(t)
    \/ \E t \in Threads : BalanceReturn(t)
    \/ \E t \in Threads, count \in Counts : MetricsCopy(t, count)
    \/ \E t \in Threads : MetricsReturn(t)

SpecConc == ConcInit /\ [][ConcNext]_vars

(***************************************************************************)
(* Properties                                                              *)
(***************************************************************************)
Returned == {t \in DOMAIN pc : pc[t] = "done"}

\* C1: the throttle_level of every verdict balance() returns for a
\* current_throttle in [0, 1] is in [0, 1], the smoothed imbalance being
\* exactly -0.3 or +0.3 included.
C1_ThrottleLevelInUnitInterval ==
    \A t \in Returned :
        /\ 0 <= frame[t].result.throttle_level
        /\ frame[t].result.throttle_level <= One

\* The brake has been applied at idi and at the two debts just below it.
Crossed(d) == idi = d /\ brake # <<>> /\ below1 # <<>> /\ below2 # <<>>
\* The limit, at idi, of the line through the two levels returned below it.
LimitFromBelow == 2 * below1[1] - below2[1]

\* C2 as stated: at each of the thresholds 3.0, 5.0, 7.0 and 10.0 the
\* throttle level returned at the threshold is the limit of the levels
\* returned just below it.
C2_ContinuousAtEveryThreshold ==
    \A d \in {IDI_HEALTHY, IDI_WARNING, IDI_CRITICAL, IDI_QUARANTINE} :
        Crossed(d) => brake[1].throttle_level = LimitFromBelow

\* C2 amended: the throttle level is continuous at 3.0, 5.0 and 7.0; at 10.0
\* the levels just below tend to 0.1 and the level returned is 0.0.
C2_ContinuousBelowQuarantine ==
    /\ \A d \in {IDI_HEALTHY, IDI_WARNING, IDI_CRITICAL} :
            Crossed(d) => brake[1].throttle_level = LimitFromBelow
    /\ Crossed(IDI_QUARANTINE) =>
            /\ LimitFromBelow = One \div 10
            /\ brake[1].throttle_level = 0

C2_Witness ==
    /\ Crossed(IDI_CRITICAL)
    /\ brake[1].throttle_level = (3 * One) \div 10
    /\ below1[1] > brake[1].throttle_level

\* C3 as stated: on the whole CRITICAL band 5.0 <= debt < 10.0 the throttle
\* level is 0.7 - 0.4 * (debt - 5.0) / 5.0.
C3_OneLineOverCriticalBand ==
    (brake # <<>> /\ IDI_WARNING <= idi /\ idi < IDI_QUARANTINE) =>
        ((7 * One) \div 10 - brake[1].throttle_level) * (IDI_QUARANTINE - IDI_WARNING)
            = ((4 * One) \div 10) * (idi - IDI_WARNING)

\* C3 amended: the debts classified CRITICAL (action BRAKE) are exactly
\* those with 5.0 <= debt < 10.0; for 5.0 <= debt < 7.0 the throttle level is
\* 0.7 - 0.4 * (debt - 5.0) / 2.0, and for 7.0 <= debt < 10.0 it is
\* 0.3 - 0.2 * (debt - 7.0) / 3.0.
C3_TwoLinesOverCriticalBand ==
    brake # <<>> =>
        /\ brake[1].action = "BRAKE" <=> (IDI_WARNING <= idi /\ idi < IDI_QUARANTINE)
        /\ (IDI_WARNING <= idi /\ idi < IDI_CRITICAL) =>
            ((7 * One) \div 10 - brake[1].throttle_level) * (IDI_CRITICAL - IDI_WARNING)
                = ((4 * One) \div 10) * (idi - IDI_WARNING)
        /\ (IDI_CRITICAL <= idi /\ idi < IDI_QUARANTINE) =>
            ((3 * One) \div 10 - brake[1].throttle_level) * (IDI_QUARANTINE - IDI_CRITICAL)
                = ((2 * One) \div 10) * (idi - IDI_CRITICAL)

C3_Witness ==
    /\ brake # <<>>
    /\ 2 * idi = 17 * DebtScale
    /\ brake[1].action = "BRAKE"
    /\ brake[1].throttle_level = (2 * One) \div 10

\* C4: the accumulated integral is within [-50, 50] and every adjustment
\* calculate returns is within [-0.3, 0.3]; once the calls with one positive
\* error have added up to the width of the integral's range, the integral
\* is 50, and it is 50 after every further such call.
C4_IntegralAndOutputBounded ==
    /\ INTEGRAL_MIN <= integral_ /\ integral_ <= INTEGRAL_MAX
    /\ 0 - 3 * AdjScale <= 10 * adjustment /\ 10 * adjustment <= 3 * AdjScale
    /\ (previous_error_ > 0
            /\ streak * previous_error_ >= INTEGRAL_MAX - INTEGRAL_MIN)
        => integral_ = INTEGRAL_MAX

C4_Witness ==
    /\ streak = MaxStreak
    /\ previous_error_ = 25
    /\ integral_ = INTEGRAL_MAX
    /\ 10 * adjustment < 3 * AdjScale

\* C5: whenever no balance() call holds the mutex the history holds at most
\* 2 * moving_avg_window_ samples, and, eviction removing the oldest sample
\* first, the history is always the most recently pushed samples in the
\* order they were pushed, under every interleaving of balance() and
\* getRecentMetrics() calls.
C5_HistoryBoundedOldestEvicted ==
    /\ (\A t \in DOMAIN pc : mutex_ = t => pc[t] = "metrics")
            => Len(history_) <= 2 * moving_avg_window_
    /\ Len(history_) <= 2 * moving_avg_window_ + 1
    /\ \A i \in 1..Len(history_) :
            history_[i].timestamp = clock - Len(history_) + i

C5_Witness ==
    /\ mutex_ = Free
    /\ Len(history_) = 2 * moving_avg_window_
    /\ history_[1].timestamp = 3
    /\ pc["t1"] = "mdone" /\ Len(frame["t1"].metrics) = moving_avg_window_
    /\ pc["t2"] = "lock2"

RECURSIVE TotalImbalance(_, _, _)
TotalImbalance(h, lo, hi) ==
    IF lo > hi THEN 0 ELSE h[hi].imbalance + TotalImbalance(h, lo, hi - 1)

\* C6: for a single caller, the imbalance the verdict is decided on is the
\* mean of the imbalances of the last moving_avg_window_ samples of the
\* history, the caller's own sample being the last of them, when the
\* history holds at least moving_avg_window_ samples; otherwise it is the
\* imbalance of the call's own snapshot.
C6_SmoothedOverLastWindow ==
    \A t \in Returned :
        LET n == Len(history_)
        IN  /\ history_[n].timestamp = frame[t].timestamp
            /\ history_[n].imbalance = frame[t].imbalance
            /\ IF n >= moving_avg_window_
               THEN frame[t].result.imbalance * moving_avg_window_
                        = TotalImbalance(history_, n - moving_avg_window_ + 1, n)
               ELSE frame[t].result.imbalance = frame[t].imbalance

C6_Witness ==
    /\ pc["t1"] = "done"
    /\ Len(history_) = moving_avg_window_ + 2
    /\ history_[1].imbalance # history_[3].imbalance
    /\ frame["t1"].result.imbalance = One \div 10
    /\ frame["t1"].imbalance = 0 - One \div 2

Elapsed == now - quarantined_at[1]

C8_MoreRestrictiveWins ==
    final_throttle # <<>> =>
        /\ is_quarantined => final_throttle[1] = 0
        /\ ~is_quarantined =>
            /\ final_throttle[1] <= brake[1].throttle_level
            /\ final_throttle[1] <= balance_throttle
            /\ final_throttle[1] \in {brake[1].throttle_level, balance_throttle}
        /\ 0 <= final_throttle[1] /\ final_throttle[1] <= One

C8_Witness ==
    /\ final_throttle # <<>>
    /\ ~is_quarantined
    /\ final_throttle[1] = balance_throttle
    /\ balance_throttle < brake[1].throttle_level
    /\ brake[1].action = "THROTTLE"

\* C9: the samples a call of balance() averages always contain the sample
\* that call pushed.
C9_OwnSampleAveraged ==
    \A t \in DOMAIN pc :
        (pc[t] \in {"avg", "done"} /\ frame[t].averaged # <<>>) =>
            \E i \in 1..Len(frame[t].averaged) :
                frame[t].averaged[i] = frame[t].timestamp

\* C10: whenever canRestore holds for a quarantined component, shouldPrune
\* is false for the same cycle's values.
C10_RestorableNotPrunable ==
    (component = "QUARANTINED"
        /\ canRestore(telemetry.idi, telemetry.health_score, quarantined_at[1], now))
    => ~shouldPrune(telemetry.idi, telemetry.error_rate, telemetry.health_score,
                    telemetry.temperature)

\* C11: whenever balance() returns action THROTTLE for a current_throttle in
\* [0, 1], the verdict's throttle_level is not higher than that
\* current_throttle (so, each verdict's level being fed back as the next
\* current_throttle, the throttle does not rise under THROTTLE verdicts),
\* and it is not below 0.2.
C11_ThrottleNeverRaises ==
    \A t \in Returned :
        (frame[t].result.action = "THROTTLE"
            /\ 0 <= frame[t].current_throttle
            /\ frame[t].current_throttle <= One)
        => /\ frame[t].result.throttle_level <= frame[t].current_throttle
           /\ frame[t].result.throttle_level >= (2 * One) \div 10

=============================================================================
